---- MODULE Spec2Model ----
(***************************************************************************)
(* A model of the release-packages command line tool: the version bump,    *)
(* the zod schemas of package.json and .release-package.json, the JSON     *)
(* Schema export, and the release orchestrator main().                     *)
(*                                                                         *)
(* Strings are sequences of tokens.  Wherever the code inspects the        *)
(* characters of a string (the semantic-version regular expression,        *)
(* split('.'), parseInt, Number) every token is one character.             *)
(***************************************************************************)
EXTENDS Integers, Sequences, FiniteSets, TLC

VARIABLES
    \* ---- bumpVersion applied to one input (specification SpecBump)
    bVersion,        \* the currentVersion argument
    bType,           \* the type argument
    bResult,         \* what bumpVersion did: [threw, value]
    bLegacy,         \* what the superseded bumpVersion did: [threw, value]
    \* ---- the release configuration schema (specification SpecSchema)
    sConfig,         \* a parsed .release-package.json document
    sValidated,      \* validateReleasePackageConfig(sConfig): <<>> or <<result>>
    sInternal,       \* ReleasePackageSchemaInternal.safeParse(sConfig): <<>> or <<result>>
    sName,           \* the schemaName argument of toJSONSchema: <<>> is undefined
    sDocument,       \* what toJSONSchema returned: <<>> or <<document>>
    sDist,           \* dist/schema.json: <<>> or <<document>>
    \* ---- one run of the release orchestrator main() (specification Spec)
    pc,              \* the step main() is at; "exited" when the process is gone
    exit,            \* <<>> while the process runs, then <<its exit code>>
    packageFile,     \* package.json on disk
    packageFileBefore, \* package.json as it was when the run started
    configFile,      \* .release-package.json on disk
    packageJson,     \* main's packageJson
    currentVersion,  \* main's currentVersion
    releasePackage,  \* ensureNpmPublished's releasePackage
    versionType,     \* the answer of the select prompt
    shouldRelease,   \* the answer of the confirm prompt
    releaseNotes,    \* the answer of the text prompt
    newVersion,      \* main's newVersion
    cmds,            \* every execSync call so far: [cmd, arg, ok]
    output,          \* the outro messages so far
    writes           \* the writeFileSync calls on package.json so far

bumpVars == <<bVersion, bType, bResult, bLegacy>>
schemaVars == <<sConfig, sValidated, sInternal, sName, sDocument, sDist>>
fileVars == <<packageFile, configFile, packageFileBefore>>
promptVars == <<versionType, shouldRelease, releaseNotes>>
memVars == <<packageJson, currentVersion, releasePackage, newVersion>>
mainVars == <<pc, exit, fileVars, memVars, promptVars, cmds, output, writes>>
vars == <<bumpVars, schemaVars, mainVars>>

(***************************************************************************)
(* Bounds of the inputs of SpecBump.                                       *)
(***************************************************************************)
MaxDigits == 2
MaxSuffixLen == 2
MaxRawLen == 3

(***************************************************************************)
(* Characters.                                                             *)
(***************************************************************************)
DigitSeq == <<"0", "1", "2", "3", "4", "5", "6", "7", "8", "9">>
Digits == {DigitSeq[i] : i \in 1..10}
Letters ==
    {"a", "b", "c", "d", "e", "f", "g", "h", "i", "j", "k", "l", "m",
     "n", "o", "p", "q", "r", "s", "t", "u", "v", "w", "x", "y", "z",
     "A", "B", "C", "D", "E", "F", "G", "H", "I", "J", "K", "L", "M",
     "N", "O", "P", "Q", "R", "S", "T", "U", "V", "W", "X", "Y", "Z"}

DigitValue(c) == (CHOOSE i \in 1..10 : DigitSeq[i] = c) - 1

\* \d
IsDigit(c) == c \in Digits
\* [a-zA-Z0-9-]
IsIdChar(c) == c \in Digits \cup Letters \cup {"-"}

\* The index after the longest run of digits of s that starts at index i
\* (a greedy \d+ ; the run is empty when the result is i).
DigitRunEnd(s, i) ==
    CHOOSE j \in i..(Len(s) + 1) :
        /\ \A k \in i..(j - 1) : IsDigit(s[k])
        /\ (j = Len(s) + 1 \/ ~IsDigit(s[j]))

\* The same for a greedy [a-zA-Z0-9-]+
IdRunEnd(s, i) ==
    CHOOSE j \in i..(Len(s) + 1) :
        /\ \A k \in i..(j - 1) : IsIdChar(s[k])
        /\ (j = Len(s) + 1 \/ ~IsIdChar(s[j]))

(***************************************************************************)
(* JavaScript numbers, as far as the version bump needs them: an integer   *)
(* or NaN.  The digit strings of the model stay far below 2^53, where      *)
(* parseInt and + are exact.                                               *)
(***************************************************************************)
Num(n) == [nan |-> FALSE, n |-> n]
NaN == [nan |-> TRUE, n |-> 0]

\* x + 1
PlusOne(x) == IF x.nan THEN NaN ELSE Num(x.n + 1)

RECURSIVE NatToString(_)
NatToString(n) ==
    IF n < 10 THEN <<DigitSeq[n + 1]>>
    ELSE Append(NatToString(n \div 10), DigitSeq[(n % 10) + 1])

\* `${x}` for a number x
NumToString(x) ==
    IF x.nan THEN <<"N", "a", "N">>
    ELSE IF x.n < 0 THEN <<"-">> \o NatToString(0 - x.n)
    ELSE NatToString(x.n)

RECURSIVE DigitsToNat(_)
DigitsToNat(s) ==
    IF Len(s) = 0 THEN 0
    ELSE 10 * DigitsToNat(SubSeq(s, 1, Len(s) - 1)) + DigitValue(s[Len(s)])

\* parseInt(s, 10): an optional sign, then the longest run of digits; NaN
\* when there is no digit.  (Leading white space does not occur.)
parseInt(s) ==
    LET signed == Len(s) >= 1 /\ s[1] \in {"-", "+"}
        from == IF signed THEN 2 ELSE 1
        to == DigitRunEnd(s, from)
        mag == DigitsToNat(SubSeq(s, from, to - 1))
    IN  IF to = from THEN NaN
        ELSE IF signed /\ s[1] = "-" THEN Num(0 - mag) ELSE Num(mag)

(***************************************************************************)
(* /^(\d+)\.(\d+)\.(\d+)(?:-([a-zA-Z0-9-]+))?(?:\+([a-zA-Z0-9-]+))?$/      *)
(* The result of String.match: matched, and the three numeric groups.      *)
(* Every repetition is followed by a character outside its class, so the   *)
(* greedy runs are the only way to match.                                  *)
(***************************************************************************)
NoMatch == [matched |-> FALSE, major |-> <<>>, minor |-> <<>>, patch |-> <<>>]

\* The regular expression up to (not including) the $ anchor: the index
\* after the matched prefix, 0 when the prefix does not match.
versionRegexPrefix(s) ==
    LET a == DigitRunEnd(s, 1) IN
    IF a = 1 \/ a > Len(s) \/ s[a] # "." THEN 0 ELSE
    LET b == DigitRunEnd(s, a + 1) IN
    IF b = a + 1 \/ b > Len(s) \/ s[b] # "." THEN 0 ELSE
    LET c == DigitRunEnd(s, b + 1) IN
    IF c = b + 1 THEN 0 ELSE
    LET d == IF c <= Len(s) /\ s[c] = "-" /\ IdRunEnd(s, c + 1) > c + 1
             THEN IdRunEnd(s, c + 1) ELSE c
        e == IF d <= Len(s) /\ s[d] = "+" /\ IdRunEnd(s, d + 1) > d + 1
             THEN IdRunEnd(s, d + 1) ELSE d
    IN  e

versionRegexGroups(s) ==
    LET a == DigitRunEnd(s, 1)
        b == DigitRunEnd(s, a + 1)
        c == DigitRunEnd(s, b + 1)
    IN  [matched |-> TRUE,
         major |-> SubSeq(s, 1, a - 1),
         minor |-> SubSeq(s, a + 1, b - 1),
         patch |-> SubSeq(s, b + 1, c - 1)]

\* A plausible slip: the pattern without its $ anchor.
versionRegexUnanchored(s) ==
    IF versionRegexPrefix(s) = 0 THEN NoMatch ELSE versionRegexGroups(s)

versionRegex(s) ==
    IF versionRegexPrefix(s) = Len(s) + 1 THEN versionRegexGroups(s) ELSE NoMatch

(***************************************************************************)
(* bumpVersion.  A call either returns a string or throws an Error with a  *)
(* message: [threw |-> BOOLEAN, value |-> the string or the message].      *)
(***************************************************************************)
Returns(s) == [threw |-> FALSE, value |-> s]
Throws(msg) == [threw |-> TRUE, value |-> msg]

VersionTypes == {"patch", "minor", "major"}

\* A plausible slip: minor and major leave the lower components as they were.
bumpVersionNoReset(current, type) ==
    LET match == versionRegex(current) IN
    IF ~match.matched
    THEN Throws(<<"Invalid version format: ">> \o current
                \o <<". Expected semantic versioning (e.g., 1.2.3)">>)
    ELSE
    LET major == parseInt(match.major)
        minor == parseInt(match.minor)
        patch == parseInt(match.patch)
    IN  CASE type = "major" ->
               Returns(NumToString(PlusOne(major)) \o <<".">>
                       \o NumToString(minor) \o <<".">> \o NumToString(patch))
          [] type = "minor" ->
               Returns(NumToString(major) \o <<".">>
                       \o NumToString(PlusOne(minor)) \o <<".">> \o NumToString(patch))
          [] type = "patch" ->
               Returns(NumToString(major) \o <<".">> \o NumToString(minor)
                       \o <<".">> \o NumToString(PlusOne(patch)))
          [] OTHER -> Throws(<<"Unknown version type: ", type>>)

bumpVersion(current, type) ==
    LET match == versionRegex(current) IN
    IF ~match.matched
    THEN Throws(<<"Invalid version format: ">> \o current
                \o <<". Expected semantic versioning (e.g., 1.2.3)">>)
    ELSE
    LET major == parseInt(match.major)
        minor == parseInt(match.minor)
        patch == parseInt(match.patch)
    IN  CASE type = "major" ->
               Returns(NumToString(PlusOne(major)) \o <<".", "0", ".", "0">>)
          [] type = "minor" ->
               Returns(NumToString(major) \o <<".">>
                       \o NumToString(PlusOne(minor)) \o <<".", "0">>)
          [] type = "patch" ->
               Returns(NumToString(major) \o <<".">> \o NumToString(minor)
                       \o <<".">> \o NumToString(PlusOne(patch)))
          [] OTHER -> Throws(<<"Unknown version type: ", type>>)

(***************************************************************************)
(* The superseded bumpVersion: split('.').map(Number), no format check.    *)
(***************************************************************************)
\* The index of the first "." of s at or after i, Len(s) + 1 when none.
NextDot(s, i) ==
    CHOOSE j \in i..(Len(s) + 1) :
        /\ \A k \in i..(j - 1) : s[k] # "."
        /\ (j = Len(s) + 1 \/ s[j] = ".")

\* s.split('.')
RECURSIVE SplitFrom(_, _)
SplitFrom(s, i) ==
    LET j == NextDot(s, i) IN
    IF j = Len(s) + 1 THEN <<SubSeq(s, i, Len(s))>>
    ELSE <<SubSeq(s, i, j - 1)>> \o SplitFrom(s, j + 1)

split(s) == SplitFrom(s, 1)

\* Number(s) for a string of digits, letters, "-" and "+": the empty string
\* is 0, an optionally signed run of digits is its value, the rest is NaN.
\* (No letter of a modelled input spells Infinity, a radix prefix or an
\* exponent.)
Number(s) ==
    IF Len(s) = 0 THEN Num(0)
    ELSE LET signed == s[1] \in {"-", "+"}
             from == IF signed THEN 2 ELSE 1
         IN  IF from <= Len(s) /\ DigitRunEnd(s, from) = Len(s) + 1
             THEN parseInt(s)
             ELSE NaN

\* An element of the destructured array: undefined when the array is shorter.
Undefined == [undef |-> TRUE, num |-> NaN]
Defined(x) == [undef |-> FALSE, num |-> x]
ElementAt(parts, i) ==
    IF i <= Len(parts) THEN Defined(Number(parts[i])) ELSE Undefined
\* `${x}` and x + 1 for such an element: undefined + 1 is NaN
ElementToString(x) ==
    IF x.undef THEN <<"u", "n", "d", "e", "f", "i", "n", "e", "d">>
    ELSE NumToString(x.num)
ElementPlusOne(x) == IF x.undef THEN NaN ELSE PlusOne(x.num)

bumpVersionLegacy(current, type) ==
    LET parts == split(current)
        major == ElementAt(parts, 1)
        minor == ElementAt(parts, 2)
        patch == ElementAt(parts, 3)
    IN  CASE type = "major" ->
               Returns(NumToString(ElementPlusOne(major)) \o <<".", "0", ".", "0">>)
          [] type = "minor" ->
               Returns(ElementToString(major) \o <<".">>
                       \o NumToString(ElementPlusOne(minor)) \o <<".", "0">>)
          [] type = "patch" ->
               Returns(ElementToString(major) \o <<".">> \o ElementToString(minor)
                       \o <<".">> \o NumToString(ElementPlusOne(patch)))
          [] OTHER -> Returns(current)

(***************************************************************************)
(* JSON values: [t |-> the type, v |-> the payload].  An object's payload  *)
(* is a function from its keys, an array's a sequence, a string's its      *)
(* tokens.  Undefined is what reading an absent key gives.                 *)
(***************************************************************************)
Str(s) == [t |-> "string", v |-> s]
Bool(b) == [t |-> "boolean", v |-> b]
Obj(f) == [t |-> "object", v |-> f]
Arr(a) == [t |-> "array", v |-> a]
JNumber(n) == [t |-> "number", v |-> n]
Number42 == JNumber(42)
Undefined_ == [t |-> "undefined", v |-> FALSE]
NoKeys == [k \in {} |-> Undefined_]

Get(x, k) == IF x.t = "object" /\ k \in DOMAIN x.v THEN x.v[k] ELSE Undefined_

(***************************************************************************)
(* zod schemas as data.                                                    *)
(***************************************************************************)
ZString == [z |-> "string", min |-> 0, regex |-> FALSE, url |-> FALSE]
\* z.string().min(1, ...)
ZStringMin1 == [z |-> "string", min |-> 1, regex |-> FALSE, url |-> FALSE]
\* z.string().regex(/^(\d+)\.(\d+)\.(\d+)(?:-...)?(?:\+...)?$/, ...)
ZSemver == [z |-> "string", min |-> 0, regex |-> TRUE, url |-> FALSE]
\* z.string().url()
ZUrl == [z |-> "string", min |-> 0, regex |-> FALSE, url |-> TRUE]
ZBoolean == [z |-> "boolean"]
ZEnum(values) == [z |-> "enum", values |-> values]
ZArray(element) == [z |-> "array", element |-> element]
ZRecord(value) == [z |-> "record", value |-> value]
ZObject(shape) == [z |-> "object", shape |-> shape, strict |-> FALSE]
ZStrict(schema) == [schema EXCEPT !.strict = TRUE]
ZOptional(schema) == [z |-> "optional", inner |-> schema]
ZDefault(schema, value) == [z |-> "default", inner |-> schema, value |-> value]

\* What z.string().url() accepts: a string that starts with a scheme.
UrlSchemes == {"https://", "http://"}
IsUrl(s) == Len(s) >= 2 /\ s[1] \in UrlSchemes

Issue(path, code) == [path |-> path, code |-> code]

\* safeParse: the issues of input x under a schema (none: success)
RECURSIVE Issues(_, _, _)
Issues(schema, x, path) ==
    CASE schema.z = "optional" ->
           IF x.t = "undefined" THEN {} ELSE Issues(schema.inner, x, path)
      [] schema.z = "default" ->
           IF x.t = "undefined" THEN {} ELSE Issues(schema.inner, x, path)
      [] schema.z = "string" ->
           IF x.t # "string" THEN {Issue(path, "invalid_type")}
           ELSE (IF Len(x.v) < schema.min THEN {Issue(path, "too_small")} ELSE {})
                \cup (IF schema.regex /\ ~versionRegex(x.v).matched
                      THEN {Issue(path, "invalid_string")} ELSE {})
                \cup (IF schema.url /\ ~IsUrl(x.v)
                      THEN {Issue(path, "invalid_url")} ELSE {})
      [] schema.z = "boolean" ->
           IF x.t # "boolean" THEN {Issue(path, "invalid_type")} ELSE {}
      [] schema.z = "enum" ->
           IF x.t = "string" /\ x.v \in schema.values THEN {}
           ELSE {Issue(path, "invalid_enum_value")}
      [] schema.z = "array" ->
           IF x.t # "array" THEN {Issue(path, "invalid_type")}
           ELSE UNION {Issues(schema.element, x.v[i], Append(path, "[]")) :
                          i \in 1..Len(x.v)}
      [] schema.z = "record" ->
           IF x.t # "object" THEN {Issue(path, "invalid_type")}
           ELSE UNION {Issues(schema.value, x.v[k], Append(path, k)) : k \in DOMAIN x.v}
      [] schema.z = "object" ->
           IF x.t # "object" THEN {Issue(path, "invalid_type")}
           ELSE UNION {Issues(schema.shape[k], Get(x, k), Append(path, k)) :
                          k \in DOMAIN schema.shape}
                \cup (IF schema.strict /\ ~(DOMAIN x.v \subseteq DOMAIN schema.shape)
                      THEN {Issue(path, "unrecognized_keys")} ELSE {})

\* safeParse: the data of a successful parse: defaults filled for absent
\* keys, keys outside an object's shape stripped.
RECURSIVE Output(_, _)
Output(schema, x) ==
    CASE schema.z = "optional" ->
           IF x.t = "undefined" THEN Undefined_ ELSE Output(schema.inner, x)
      [] schema.z = "default" ->
           IF x.t = "undefined" THEN schema.value ELSE Output(schema.inner, x)
      [] schema.z = "object" ->
           LET present == {k \in DOMAIN schema.shape :
                              Output(schema.shape[k], Get(x, k)).t # "undefined"}
           IN  Obj([k \in present |-> Output(schema.shape[k], Get(x, k))])
      [] OTHER -> x

safeParse(schema, x) ==
    LET issues == Issues(schema, x, <<>>) IN
    [success |-> issues = {},
     data |-> IF issues = {} THEN Output(schema, x) ELSE Undefined_,
     issues |-> issues]

(***************************************************************************)
(* The schemas of src/types.ts.                                            *)
(***************************************************************************)
\* A plausible slip: the manifest's version is any string
PackageJsonSchemaAnyVersion ==
    ZObject([name |-> ZStringMin1,
             version |-> ZString,
             scripts |-> ZOptional(ZRecord(ZString)),
             dependencies |-> ZOptional(ZRecord(ZString)),
             devDependencies |-> ZOptional(ZRecord(ZString))])

\* The manifest, as far as the orchestrator reads it
PackageJsonSchema ==
    ZObject([name |-> ZStringMin1,
             version |-> ZSemver,
             scripts |-> ZOptional(ZRecord(ZString)),
             dependencies |-> ZOptional(ZRecord(ZString)),
             devDependencies |-> ZOptional(ZRecord(ZString))])

AccessValues == {<<"public">>, <<"restricted">>}

NpmShape ==
    [publish |-> ZDefault(ZBoolean, Bool(TRUE)),
     registry |-> ZOptional(ZUrl),
     access |-> ZDefault(ZEnum(AccessValues), Str(<<"public">>)),
     tag |-> ZDefault(ZString, Str(<<"latest">>)),
     publishConfig |->
         ZOptional(ZObject([access |-> ZOptional(ZEnum(AccessValues)),
                            registry |-> ZOptional(ZUrl)]))]

\* A plausible slip: the npm object without .strict()
NpmPlatformSchemaOpen == ZObject(NpmShape)

NpmPlatformSchema == ZStrict(ZObject(NpmShape))

DefaultAssets == Arr(<<Str(<<"dist/**">>), Str(<<"package.json">>), Str(<<"README.md">>)>>)

GithubShape(releaseName) ==
    [publish |-> ZDefault(ZBoolean, Bool(TRUE)),
     repository |-> ZStringMin1,
     branch |-> ZDefault(ZString, Str(<<"main">>)),
     createRelease |-> ZDefault(ZBoolean, Bool(TRUE)),
     releaseName |-> ZDefault(ZString, Str(releaseName)),
     generateNotes |-> ZDefault(ZBoolean, Bool(TRUE)),
     assets |-> ZDefault(ZArray(ZString), DefaultAssets),
     draft |-> ZDefault(ZBoolean, Bool(FALSE)),
     prerelease |-> ZDefault(ZBoolean, Bool(FALSE))]

GithubPlatformSchema == ZStrict(ZObject(GithubShape(<<"Release ", "${version}">>)))

GitShape(commitMessage) ==
    [commitMessage |-> ZDefault(ZString, Str(commitMessage)),
     tagPrefix |-> ZDefault(ZString, Str(<<"v">>)),
     requireCleanWorkingDirectory |-> ZDefault(ZBoolean, Bool(TRUE)),
     requireUpToDate |-> ZDefault(ZBoolean, Bool(TRUE)),
     push |-> ZDefault(ZBoolean, Bool(TRUE)),
     pushTags |-> ZDefault(ZBoolean, Bool(TRUE))]

GitConfigSchema == ZStrict(ZObject(GitShape(<<"chore: release ", "${version}">>)))

HooksShape ==
    [beforeRelease |-> ZOptional(ZString),
     afterRelease |-> ZOptional(ZString),
     beforePublish |-> ZOptional(ZString),
     afterPublish |-> ZOptional(ZString)]

ReleasePackageSchema ==
    ZObject(("$schema" :> ZOptional(ZString)) @@
            [name |-> ZStringMin1,
             version |-> ZOptional(ZSemver),
             platforms |->
                 ZOptional(ZObject([npm |-> ZOptional(NpmPlatformSchema),
                                    github |-> ZOptional(GithubPlatformSchema)])),
             git |-> ZOptional(GitConfigSchema),
             hooks |-> ZOptional(ZObject(HooksShape))])

\* The schema the orchestrator declares for itself: the same shape, written
\* inline; its two template defaults keep a backslash.
ReleasePackageSchemaInternal ==
    ZObject(("$schema" :> ZOptional(ZString)) @@
            [name |-> ZStringMin1,
             version |-> ZOptional(ZSemver),
             platforms |->
                 ZOptional(ZObject(
                     [npm |-> ZOptional(ZStrict(ZObject(NpmShape))),
                      github |-> ZOptional(ZStrict(ZObject(
                          GithubShape(<<"Release ", "\\", "${version}">>))))])),
             git |-> ZOptional(ZStrict(ZObject(
                          GitShape(<<"chore: release ", "\\", "${version}">>)))),
             hooks |-> ZOptional(ZObject(HooksShape))])

\* validateReleasePackageConfig: the data, or an Error listing the issues
validateReleasePackageConfig(config) ==
    LET result == safeParse(ReleasePackageSchema, config) IN
    [threw |-> ~result.success, data |-> result.data, issues |-> result.issues]

createDefaultReleasePackageConfig(name) ==
    Obj([name |-> Str(name),
         platforms |-> Obj(
             [npm |-> Obj([publish |-> Bool(TRUE),
                           registry |-> Str(<<"https://", "registry.npmjs.org/">>),
                           access |-> Str(<<"public">>),
                           tag |-> Str(<<"latest">>),
                           publishConfig |-> Obj([access |-> Str(<<"public">>)])]),
              github |-> Obj([publish |-> Bool(TRUE),
                              repository |-> Str(<<"owner/repo">>),
                              branch |-> Str(<<"main">>),
                              createRelease |-> Bool(TRUE),
                              releaseName |-> Str(<<"Release ", "${version}">>),
                              generateNotes |-> Bool(TRUE),
                              assets |-> DefaultAssets,
                              draft |-> Bool(FALSE),
                              prerelease |-> Bool(FALSE)])]),
         git |-> Obj([commitMessage |-> Str(<<"chore: release ", "${version}">>),
                      tagPrefix |-> Str(<<"v">>),
                      requireCleanWorkingDirectory |-> Bool(TRUE),
                      requireUpToDate |-> Bool(TRUE),
                      push |-> Bool(TRUE),
                      pushTags |-> Bool(TRUE)])])

(***************************************************************************)
(* toJSONSchema: the JSON Schema document, written out by hand in the      *)
(* source.  The document is a JSON value.                                  *)
(***************************************************************************)
JType(t) == Obj([type |-> Str(<<t>>)])
JDefault(t, d) == Obj([type |-> Str(<<t>>), default |-> d])
JAccess == Arr(<<Str(<<"public">>), Str(<<"restricted">>)>>)

PublishConfigJsonSchema ==
    Obj([type |-> Str(<<"object">>),
         properties |-> Obj(
             [access |-> Obj([type |-> Str(<<"string">>), enum |-> JAccess]),
              registry |-> Obj([type |-> Str(<<"string">>), format |-> Str(<<"uri">>)])])])

NpmJsonSchema ==
    Obj([type |-> Str(<<"object">>),
         properties |-> Obj(
             [publish |-> JDefault("boolean", Bool(TRUE)),
              registry |-> Obj([type |-> Str(<<"string">>), format |-> Str(<<"uri">>)]),
              access |-> Obj([type |-> Str(<<"string">>), enum |-> JAccess,
                              default |-> Str(<<"public">>)]),
              tag |-> JDefault("string", Str(<<"latest">>)),
              publishConfig |-> PublishConfigJsonSchema]),
         additionalProperties |-> Bool(FALSE)])

GithubJsonProperties ==
    Obj([publish |-> JDefault("boolean", Bool(TRUE)),
         repository |-> Obj([type |-> Str(<<"string">>), minLength |-> JNumber(1)]),
         branch |-> JDefault("string", Str(<<"main">>)),
         createRelease |-> JDefault("boolean", Bool(TRUE)),
         releaseName |-> JDefault("string", Str(<<"Release ", "${version}">>)),
         generateNotes |-> JDefault("boolean", Bool(TRUE)),
         assets |-> Obj([type |-> Str(<<"array">>), items |-> JType("string"),
                         default |-> DefaultAssets]),
         draft |-> JDefault("boolean", Bool(FALSE)),
         prerelease |-> JDefault("boolean", Bool(FALSE))])

\* A plausible slip: additionalProperties left out of the github object
GithubJsonSchemaOpen ==
    Obj([type |-> Str(<<"object">>), properties |-> GithubJsonProperties])

GithubJsonSchema ==
    Obj([type |-> Str(<<"object">>),
         properties |-> GithubJsonProperties,
         additionalProperties |-> Bool(FALSE)])

GitJsonSchema ==
    Obj([type |-> Str(<<"object">>),
         properties |-> Obj(
             [commitMessage |-> JDefault("string", Str(<<"chore: release ", "${version}">>)),
              tagPrefix |-> JDefault("string", Str(<<"v">>)),
              requireCleanWorkingDirectory |-> JDefault("boolean", Bool(TRUE)),
              requireUpToDate |-> JDefault("boolean", Bool(TRUE)),
              push |-> JDefault("boolean", Bool(TRUE)),
              pushTags |-> JDefault("boolean", Bool(TRUE))]),
         additionalProperties |-> Bool(FALSE)])

HooksJsonSchema ==
    Obj([type |-> Str(<<"object">>),
         properties |-> Obj([beforeRelease |-> JType("string"),
                             afterRelease |-> JType("string"),
                             beforePublish |-> JType("string"),
                             afterPublish |-> JType("string")])])

SemverPattern ==
    <<"^(\\d+)\\.(\\d+)\\.(\\d+)(?:-([a-zA-Z0-9-]+))?(?:\\+([a-zA-Z0-9-]+))?$">>

JsonSchemaProperties ==
    Obj(("$schema" :> JType("string")) @@
        [name |-> Obj([type |-> Str(<<"string">>), minLength |-> JNumber(1)]),
         version |-> Obj([type |-> Str(<<"string">>), pattern |-> Str(SemverPattern)]),
         platforms |-> Obj([type |-> Str(<<"object">>),
                            properties |-> Obj([npm |-> NpmJsonSchema,
                                                github |-> GithubJsonSchema])]),
         git |-> GitJsonSchema,
         hooks |-> HooksJsonSchema])

\* schemaName is a string or undefined; title: schemaName || 'ReleasePackage'
toJSONSchema(schemaName) ==
    Obj(("$schema" :> Str(<<"http://", "json-schema.org/draft-07/schema#">>)) @@
        [type |-> Str(<<"object">>),
         properties |-> JsonSchemaProperties,
         required |-> Arr(<<Str(<<"name">>)>>),
         title |-> IF schemaName.t = "undefined" \/ schemaName.v = <<>>
                   THEN Str(<<"ReleasePackage">>) ELSE schemaName])

\* generate-schema.ts: the document written to dist/schema.json.  Every value
\* of the document is a string, a boolean, a number, an array or an object,
\* which JSON.stringify writes without loss.
finalSchema ==
    LET jsonSchema == toJSONSchema(Str(<<"ReleasePackage">>))
        rest == [k \in DOMAIN jsonSchema.v \ {"$schema", "properties", "definitions"} |->
                    jsonSchema.v[k]]
        truthy(x) == x.t # "undefined" /\ ~(x.t = "string" /\ x.v = <<>>)
    IN  Obj(rest @@
            ("$schema" :> (IF truthy(Get(jsonSchema, "$schema"))
                           THEN Get(jsonSchema, "$schema")
                           ELSE Str(<<"http://", "json-schema.org/draft-07/schema#">>))) @@
            [type |-> Str(<<"object">>),
             properties |-> IF Get(jsonSchema, "properties").t # "undefined"
                            THEN Get(jsonSchema, "properties") ELSE Obj(NoKeys),
             definitions |-> IF Get(jsonSchema, "definitions").t # "undefined"
                             THEN Get(jsonSchema, "definitions") ELSE Obj(NoKeys)])

(***************************************************************************)
(* Release configuration documents.                                        *)
(***************************************************************************)
PkgName == <<"pkg">>

MinimalConfig == Obj([name |-> Str(PkgName)])
DefaultConfig == createDefaultReleasePackageConfig(PkgName)
SomeHooks == Obj([beforeRelease |-> Str(<<"bun test">>), afterPublish |-> Str(<<"echo done">>)])

\* Documents that follow the declared shape everywhere.
ValidBases ==
    {MinimalConfig,
     Obj(("$schema" :> Str(<<"./dist/schema.json">>)) @@ MinimalConfig.v),
     Obj([version |-> Str(<<"1", ".", "2", ".", "3", "-", "r", "c">>)] @@ MinimalConfig.v),
     DefaultConfig,
     Obj([hooks |-> SomeHooks] @@ DefaultConfig.v),
     Obj(("$schema" :> Str(<<"./dist/schema.json">>)) @@ [hooks |-> SomeHooks]
         @@ DefaultConfig.v),
     Obj([platforms |-> Obj([npm |-> Obj([publish |-> Bool(FALSE)])])] @@ MinimalConfig.v),
     Obj([platforms |-> Obj(NoKeys), hooks |-> Obj(NoKeys), git |-> Obj(NoKeys)]
         @@ MinimalConfig.v),
     Obj([platforms |-> Obj([npm |-> Obj(NoKeys)])] @@ MinimalConfig.v)}

NpmPath == <<"platforms", "npm">>
GithubPath == <<"platforms", "github">>

\* The objects of a configuration document, by path
ClosedConfigPaths == {NpmPath, GithubPath, <<"git">>}
OpenConfigPaths == {<<>>, <<"platforms">>, <<"platforms", "npm", "publishConfig">>, <<"hooks">>}

RECURSIVE At(_, _)
At(x, path) == IF path = <<>> THEN x ELSE At(Get(x, Head(path)), Tail(path))

HasObjectAt(x, path) == At(x, path).t = "object"

\* x with x.path.key set to val (x.path is an object)
RECURSIVE WithKey(_, _, _, _)
WithKey(x, path, key, val) ==
    IF path = <<>> THEN Obj((key :> val) @@ x.v)
    ELSE Obj((Head(path) :> WithKey(x.v[Head(path)], Tail(path), key, val)) @@ x.v)

Edit(path, key, val) == [path |-> path, key |-> key, val |-> val]

\* A key no shape declares, at every object of the document
UnknownKeyEdits ==
    {Edit(path, "bogusField", Str(<<"x">>)) : path \in ClosedConfigPaths \cup OpenConfigPaths}

\* Declared keys set to values, good and bad
ValueEdits ==
    {Edit(<<>>, "name", Str(<<>>)),
     Edit(<<>>, "name", Number42),
     Edit(<<>>, "version", Str(<<"1", ".", "2">>)),
     Edit(NpmPath, "publish", Bool(FALSE)),
     Edit(NpmPath, "publish", Str(<<"no">>)),
     Edit(NpmPath, "access", Str(<<"private">>)),
     Edit(NpmPath, "registry", Str(<<"not a url">>)),
     Edit(NpmPath, "tag", Str(<<"beta">>)),
     Edit(GithubPath, "repository", Str(<<>>)),
     Edit(<<"git">>, "push", Bool(FALSE))}

Edited(bases, edits) ==
    {WithKey(p[1], p[2].path, p[2].key, p[2].val) :
        p \in {q \in bases \X edits : HasObjectAt(q[1], q[2].path)}}

ConfigInputs ==
    ValidBases \cup Edited(ValidBases, UnknownKeyEdits \cup ValueEdits) \cup {Obj(NoKeys)}

(***************************************************************************)
(* The release orchestrator: main() and the functions it calls.            *)
(***************************************************************************)
\* A file: missing, text that is not JSON, or a JSON document.  layout tells
\* the bytes of a document apart: as the operator left them, or as
\* JSON.stringify(value, null, 2) + "\n" writes them.
MissingFile == [kind |-> "missing", doc |-> Undefined_, layout |-> "none"]
GarbageFile == [kind |-> "text", doc |-> Undefined_, layout |-> "as found"]
JsonFile(doc) == [kind |-> "json", doc |-> doc, layout |-> "as found"]
Stringified(doc) == [kind |-> "json", doc |-> doc, layout |-> "stringify 2 newline"]

\* JSON.parse(readFileSync(file)): the value, or an exception
ReadJson(file) ==
    IF file.kind = "json" THEN [threw |-> FALSE, value |-> file.doc]
    ELSE [threw |-> TRUE, value |-> Undefined_]

\* The manifests of the model
V100 == <<"1", ".", "0", ".", "0">>
V009 == <<"0", ".", "0", ".", "9">>
V129beta == <<"1", ".", "2", ".", "9", "-", "b", "e", "t", "a", "+", "b", "1">>
V12 == <<"1", ".", "2">>

PackageDocs ==
    {Obj([name |-> Str(<<"x">>), version |-> Str(V100)]),
     Obj([name |-> Str(<<"x">>), version |-> Str(V009),
          scripts |-> Obj([build |-> Str(<<"tsdown">>)]),
          dependencies |-> Obj([zod |-> Str(<<"^3.0.0">>)])]),
     Obj([name |-> Str(<<"x">>), version |-> Str(V129beta),
          license |-> Str(<<"MIT">>), main |-> Str(<<"dist/index.js">>)]),
     Obj([name |-> Str(<<"x">>), version |-> Str(V12)]),
     Obj([name |-> Str(<<>>), version |-> Str(V100)]),
     Obj([name |-> Str(<<"x">>)]),
     Obj([name |-> Str(<<"x">>), version |-> Str(V100),
          scripts |-> Obj([build |-> Number42])]),
     Arr(<<>>)}

PackageFiles == {MissingFile, GarbageFile} \cup {JsonFile(d) : d \in PackageDocs}

\* The release configurations of the model
NpmConfig(npm) == Obj([platforms |-> Obj([npm |-> Obj(npm)])] @@ MinimalConfig.v)

ConfigDocs ==
    {MinimalConfig,
     DefaultConfig,
     NpmConfig([publish |-> Bool(FALSE)]),
     NpmConfig([publish |-> Bool(FALSE), tag |-> Str(<<"beta">>)]),
     NpmConfig([publish |-> Bool(FALSE), bogusField |-> Str(<<"x">>)]),
     NpmConfig([publish |-> Bool(TRUE), tag |-> Str(<<"beta">>),
                access |-> Str(<<"restricted">>),
                registry |-> Str(<<"https://", "npm.example.org/">>)]),
     Obj([name |-> Str(<<>>)])}

ConfigFiles == {MissingFile, GarbageFile} \cup {JsonFile(d) : d \in ConfigDocs}

\* The answers of the prompts.  A cancelled prompt returns the cancel symbol.
Cancel == "(cancel)"
NotAsked == "(not asked)"

\* The longest release notes the text prompt accepts
MaxReleaseNotes == 500

Notes(text, length) == [state |-> "text", text |-> text, length |-> length]
NotesCancel == [state |-> Cancel, text |-> <<>>, length |-> 0]
NotesNotAsked == [state |-> NotAsked, text |-> <<>>, length |-> 0]
NotesTyped ==
    {Notes(<<>>, 0),
     Notes(<<"Fix the build">>, 13),
     Notes(<<"(five hundred characters)">>, MaxReleaseNotes),
     Notes(<<"(five hundred and one characters)">>, MaxReleaseNotes + 1)}

\* The validate callback of the text prompt: TRUE when the value is accepted
validate(value) == ~(value.length > MaxReleaseNotes)

\* JavaScript truthiness of a JSON value
Truthy(x) ==
    /\ x.t # "undefined"
    /\ ~(x.t = "string" /\ x.v = <<>>)
    /\ ~(x.t = "boolean" /\ x.v = FALSE)

\* A plausible slip: the switch is read from a key the schema does not have
PublishDisabledWrongKey(config) ==
    LET publish == At(config, <<"platforms", "npm", "enabled">>) IN
    publish.t = "boolean" /\ publish.v = FALSE

\* releasePackage.platforms?.npm?.publish === false
PublishDisabled(config) ==
    LET publish == At(config, <<"platforms", "npm", "publish">>) IN
    publish.t = "boolean" /\ publish.v = FALSE

\* The flags ensureNpmPublished adds to "npm publish"
PublishFlags(config) ==
    LET npmConfig == At(config, <<"platforms", "npm">>)
        tag == Get(npmConfig, "tag")
        access == Get(npmConfig, "access")
        registry == Get(npmConfig, "registry")
    IN  (IF Truthy(tag) /\ tag.v # <<"latest">> THEN <<" --tag ">> \o tag.v ELSE <<>>)
        \o (IF Truthy(access) /\ access.v # <<"public">>
            THEN <<" --access ">> \o access.v ELSE <<>>)
        \o (IF Truthy(registry) /\ registry.v # <<"https://", "registry.npmjs.org/">>
            THEN <<" --registry ">> \o registry.v ELSE <<>>)

\* The command lines
NpmPing == "npm ping"
GitRevParse == "git rev-parse --git-dir"
GitRemote == "git remote -v"
NpmView == "npm view"
BunBuild == "bun run build"
NpmPublish == "npm publish"
ReleaseItCmd == "npx release-it --no-increment --no-git --no-npm"
GitAddCmd == "git add package.json"
GitCommitCmd == "git commit -m"
GitTagCmd == "git tag"

\* `chore: release ${newVersion}`
CommitMessage(version) == <<"chore: release ">> \o version
\* A plausible slip: the tag without its prefix
TagNameNoPrefix(version) == version
\* `v${newVersion}`
TagName(version) == <<"v">> \o version
\* The environment release-it runs in: RELEASE_VERSION and RELEASE_NOTES
ReleaseEnv(version, notes) ==
    <<"RELEASE_VERSION=">> \o version \o <<"RELEASE_NOTES=">> \o notes.text

\* execSync(cmd arg): the call is recorded with how it ended
Exec(cmd, arg, ok) == cmds' = Append(cmds, [cmd |-> cmd, arg |-> arg, ok |-> ok])

\* process.exit(code), after an outro message or none
ExitWith(code, messages) ==
    /\ pc' = "exited"
    /\ exit' = <<code>>
    /\ output' = output \o messages

Goto(step) ==
    /\ pc' = step
    /\ UNCHANGED <<exit, output>>

\* What the variables of the other specifications hold meanwhile
NotCalled == [threw |-> FALSE, value |-> <<"(not called)">>]

BumpIdle ==
    /\ bVersion = <<>>
    /\ bType = "patch"
    /\ bResult = NotCalled
    /\ bLegacy = NotCalled

SchemaIdle ==
    /\ sConfig = MinimalConfig
    /\ sValidated = <<>>
    /\ sInternal = <<>>
    /\ sName = Undefined_
    /\ sDocument = <<>>
    /\ sDist = <<>>

MainIdle ==
    /\ pc = "idle"
    /\ exit = <<>>
    /\ packageFile = MissingFile
    /\ packageFileBefore = MissingFile
    /\ configFile = MissingFile
    /\ packageJson = Undefined_
    /\ currentVersion = <<>>
    /\ releasePackage = Undefined_
    /\ versionType = NotAsked
    /\ shouldRelease = NotAsked
    /\ releaseNotes = NotesNotAsked
    /\ newVersion = <<>>
    /\ cmds = <<>>
    /\ output = <<>>
    /\ writes = 0

Init ==
    /\ BumpIdle
    /\ SchemaIdle
    /\ pc = "checkNpm"
    /\ exit = <<>>
    /\ packageFile \in PackageFiles
    /\ packageFileBefore = packageFile
    /\ configFile \in ConfigFiles
    /\ packageJson = Undefined_
    /\ currentVersion = <<>>
    /\ releasePackage = Undefined_
    /\ versionType = NotAsked
    /\ shouldRelease = NotAsked
    /\ releaseNotes = NotesNotAsked
    /\ newVersion = <<>>
    /\ cmds = <<>>
    /\ output = <<>>
    /\ writes = 0

Others == <<bumpVars, schemaVars>>

\* A plausible slip: a failed ping is thrown on and reaches the exit of main
CheckNpmConnectionFatal ==
    /\ pc = "checkNpm"
    /\ \E ok \in BOOLEAN :
        /\ Exec(NpmPing, <<>>, ok)
        /\ IF ok THEN Goto("checkGithub")
                 ELSE ExitWith(1, <<"Connection check failed">>)
    /\ UNCHANGED <<fileVars, memVars, promptVars, writes, Others>>

\* checkNpmConnection: npm ping; a failure is logged and swallowed
CheckNpmConnection ==
    /\ pc = "checkNpm"
    /\ \E ok \in BOOLEAN : Exec(NpmPing, <<>>, ok)
    /\ Goto("checkGithub")
    /\ UNCHANGED <<fileVars, memVars, promptVars, writes, Others>>

\* checkGithubConnection: git rev-parse, then git remote -v unless the first
\* threw; what the remotes are is only logged; every failure is swallowed
CheckGithubConnection ==
    /\ pc = "checkGithub"
    /\ \/ Exec(GitRevParse, <<>>, FALSE)
       \/ \E ok \in BOOLEAN :
            cmds' = cmds \o <<[cmd |-> GitRevParse, arg |-> <<>>, ok |-> TRUE],
                              [cmd |-> GitRemote, arg |-> <<>>, ok |-> ok]>>
    /\ Goto("readManifest")
    /\ UNCHANGED <<fileVars, memVars, promptVars, writes, Others>>

\* main: read package.json, JSON.parse, PackageJsonSchema.safeParse
ReadManifest ==
    /\ pc = "readManifest"
    /\ LET read == ReadJson(packageFile)
           result == safeParse(PackageJsonSchema, read.value)
       IN  IF read.threw \/ ~result.success
           THEN /\ ExitWith(1, <<"Error reading package.json">>)
                /\ UNCHANGED <<packageJson, currentVersion>>
           ELSE /\ packageJson' = result.data
                /\ currentVersion' = result.data.v.version.v
                /\ Goto("readConfig")
    /\ UNCHANGED <<fileVars, releasePackage, newVersion, promptVars, cmds, writes, Others>>

\* ensureNpmPublished, first part: readReleasePackageConfig and the publish
\* switch.  An unreadable or invalid configuration throws up to main's catch.
ReadReleasePackageConfig ==
    /\ pc = "readConfig"
    /\ LET read == ReadJson(configFile)
           result == safeParse(ReleasePackageSchemaInternal, read.value)
       IN  IF read.threw \/ ~result.success
           THEN /\ ExitWith(1, <<"Error">>)
                /\ UNCHANGED releasePackage
           ELSE /\ releasePackage' = result.data
                /\ IF PublishDisabled(result.data)
                   THEN Goto("select")
                   ELSE Goto("npmView")
    /\ UNCHANGED <<fileVars, packageJson, currentVersion, newVersion, promptVars,
                   cmds, writes, Others>>

\* ensureNpmPublished: npm view name@currentVersion version
NpmViewVersion ==
    /\ pc = "npmView"
    /\ \E ok \in BOOLEAN :
        /\ Exec(NpmView, Get(releasePackage, "name").v \o <<"@">> \o currentVersion, ok)
        /\ IF ok THEN Goto("select") ELSE Goto("build")
    /\ UNCHANGED <<fileVars, memVars, promptVars, writes, Others>>

\* A plausible slip: a failed build is thrown on like a failed publish
BuildForPublishFatal ==
    /\ pc = "build"
    /\ \E ok \in BOOLEAN :
        /\ Exec(BunBuild, <<>>, ok)
        /\ IF ok THEN Goto("publish") ELSE ExitWith(1, <<"Error">>)
    /\ UNCHANGED <<fileVars, memVars, promptVars, writes, Others>>

\* ensureNpmPublished: bun run build; a failure is logged and swallowed
BuildForPublish ==
    /\ pc = "build"
    /\ \E ok \in BOOLEAN : Exec(BunBuild, <<>>, ok)
    /\ Goto("publish")
    /\ UNCHANGED <<fileVars, memVars, promptVars, writes, Others>>

\* ensureNpmPublished: npm publish with its flags; a failure is thrown again
\* and reaches main's catch
PublishToNpm ==
    /\ pc = "publish"
    /\ \E ok \in BOOLEAN :
        /\ Exec(NpmPublish, PublishFlags(releasePackage), ok)
        /\ IF ok THEN Goto("select") ELSE ExitWith(1, <<"Error">>)
    /\ UNCHANGED <<fileVars, memVars, promptVars, writes, Others>>

\* main: the select prompt, then bumpVersion
SelectVersionType ==
    /\ pc = "select"
    /\ \E answer \in VersionTypes \cup {Cancel} :
        /\ versionType' = answer
        /\ IF answer = Cancel
           THEN /\ ExitWith(0, <<>>)
                /\ UNCHANGED newVersion
           ELSE LET bumped == bumpVersion(currentVersion, answer) IN
                IF bumped.threw
                THEN /\ ExitWith(1, <<"Error">>)
                     /\ UNCHANGED newVersion
                ELSE /\ newVersion' = bumped.value
                     /\ Goto("confirm")
    /\ UNCHANGED <<fileVars, packageJson, currentVersion, releasePackage,
                   shouldRelease, releaseNotes, cmds, writes, Others>>

\* A plausible slip: only isCancel is tested, a declined release goes on
ConfirmReleaseIgnoresDecline ==
    /\ pc = "confirm"
    /\ \E answer \in {"true", "false", Cancel} :
        /\ shouldRelease' = answer
        /\ IF answer = Cancel
           THEN ExitWith(0, <<>>)
           ELSE Goto("notes")
    /\ UNCHANGED <<fileVars, memVars, versionType, releaseNotes, cmds, writes, Others>>

\* main: the confirm prompt
ConfirmRelease ==
    /\ pc = "confirm"
    /\ \E answer \in {"true", "false", Cancel} :
        /\ shouldRelease' = answer
        /\ IF answer = Cancel \/ answer = "false"
           THEN ExitWith(0, <<>>)
           ELSE Goto("notes")
    /\ UNCHANGED <<fileVars, memVars, versionType, releaseNotes, cmds, writes, Others>>

\* main: the text prompt; a value its validate callback refuses is asked for
\* again, so the prompt returns an accepted value or the cancel symbol
EnterReleaseNotes ==
    /\ pc = "notes"
    /\ \E answer \in {n \in NotesTyped : validate(n)} \cup {NotesCancel} :
        /\ releaseNotes' = answer
        /\ IF answer.state = Cancel
           THEN ExitWith(0, <<>>)
           ELSE Goto("write")
    /\ UNCHANGED <<fileVars, memVars, versionType, shouldRelease, cmds, writes, Others>>

\* A plausible slip: the version is set in memory and the file is not written
WriteManifestNotWritten ==
    /\ pc = "write"
    /\ packageJson' = WithKey(packageJson, <<>>, "version", Str(newVersion))
    /\ Goto("releaseIt")
    /\ UNCHANGED <<fileVars, currentVersion, releasePackage, newVersion,
                   promptVars, cmds, writes, Others>>

\* main: packageJson.version = newVersion; writeFileSync("package.json",
\* JSON.stringify(packageJson, null, 2) + "\n").  The values of packageJson
\* are strings and objects of strings, which JSON.stringify writes without loss.
WriteManifest ==
    /\ pc = "write"
    /\ packageJson' = WithKey(packageJson, <<>>, "version", Str(newVersion))
    /\ packageFile' = Stringified(packageJson')
    /\ writes' = writes + 1
    /\ Goto("releaseIt")
    /\ UNCHANGED <<configFile, packageFileBefore, currentVersion, releasePackage,
                   newVersion, promptVars, cmds, Others>>

\* A plausible slip: release-it is tried a second time before the fallback
RunReleaseItRetried ==
    /\ pc = "releaseIt"
    /\ \E ok \in BOOLEAN :
        /\ Exec(ReleaseItCmd, ReleaseEnv(newVersion, releaseNotes), ok)
        /\ IF ok THEN Goto("report")
           ELSE IF \E i \in 1..Len(cmds) : cmds[i].cmd = ReleaseItCmd
                THEN Goto("gitAdd")
                ELSE Goto("releaseIt")
    /\ UNCHANGED <<fileVars, memVars, promptVars, writes, Others>>

\* main: npx release-it, the version and the notes in its environment
RunReleaseIt ==
    /\ pc = "releaseIt"
    /\ \E ok \in BOOLEAN :
        /\ Exec(ReleaseItCmd, ReleaseEnv(newVersion, releaseNotes), ok)
        /\ IF ok THEN Goto("report") ELSE Goto("gitAdd")
    /\ UNCHANGED <<fileVars, memVars, promptVars, writes, Others>>

\* A plausible slip: a failed git add is swallowed and the commit goes on
GitAddFailureSwallowed ==
    /\ pc = "gitAdd"
    /\ \E ok \in BOOLEAN : Exec(GitAddCmd, <<>>, ok)
    /\ Goto("gitCommit")
    /\ UNCHANGED <<fileVars, memVars, promptVars, writes, Others>>

\* main, in the catch of release-it: git add package.json
GitAdd ==
    /\ pc = "gitAdd"
    /\ \E ok \in BOOLEAN :
        /\ Exec(GitAddCmd, <<>>, ok)
        /\ IF ok THEN Goto("gitCommit") ELSE ExitWith(1, <<"Error">>)
    /\ UNCHANGED <<fileVars, memVars, promptVars, writes, Others>>

\* A plausible slip: a failed commit puts the manifest back as it was read
GitCommitRestoresManifest ==
    /\ pc = "gitCommit"
    /\ \E ok \in BOOLEAN :
        /\ Exec(GitCommitCmd, CommitMessage(newVersion), ok)
        /\ IF ok
           THEN /\ Goto("gitTag")
                /\ UNCHANGED packageFile
           ELSE /\ ExitWith(1, <<"Error">>)
                /\ packageFile' = packageFileBefore
    /\ UNCHANGED <<configFile, packageFileBefore, memVars, promptVars, writes, Others>>

\* git commit -m "chore: release ${newVersion}"
GitCommit ==
    /\ pc = "gitCommit"
    /\ \E ok \in BOOLEAN :
        /\ Exec(GitCommitCmd, CommitMessage(newVersion), ok)
        /\ IF ok THEN Goto("gitTag") ELSE ExitWith(1, <<"Error">>)
    /\ UNCHANGED <<fileVars, memVars, promptVars, writes, Others>>

\* A plausible slip: a failed git tag is swallowed like a failed build
GitTagFailureSwallowed ==
    /\ pc = "gitTag"
    /\ \E ok \in BOOLEAN : Exec(GitTagCmd, TagName(newVersion), ok)
    /\ Goto("report")
    /\ UNCHANGED <<fileVars, memVars, promptVars, writes, Others>>

\* git tag v${newVersion}
GitTag ==
    /\ pc = "gitTag"
    /\ \E ok \in BOOLEAN :
        /\ Exec(GitTagCmd, TagName(newVersion), ok)
        /\ IF ok THEN Goto("report") ELSE ExitWith(1, <<"Error">>)
    /\ UNCHANGED <<fileVars, memVars, promptVars, writes, Others>>

\* main: the outro of a finished release; main returns and the process ends
ReportSuccess ==
    /\ pc = "report"
    /\ ExitWith(0, <<"Successfully released">>)
    /\ UNCHANGED <<fileVars, memVars, promptVars, cmds, writes, Others>>

Next ==
    \/ CheckNpmConnection
    \/ CheckGithubConnection
    \/ ReadManifest
    \/ ReadReleasePackageConfig
    \/ NpmViewVersion
    \/ BuildForPublish
    \/ PublishToNpm
    \/ SelectVersionType
    \/ ConfirmRelease
    \/ EnterReleaseNotes
    \/ WriteManifest
    \/ RunReleaseIt
    \/ GitAdd
    \/ GitCommit
    \/ GitTag
    \/ ReportSuccess

Spec == Init /\ [][Next]_vars

(***************************************************************************)
(* SpecBump: bumpVersion applied to one input string and one type.         *)
(***************************************************************************)
SeqsUpTo(S, n) == UNION {[1..k -> S] : k \in 0..n}
NonEmptySeqsUpTo(S, n) == UNION {[1..k -> S] : k \in 1..n}

\* The characters the inputs are made of.
InputDigits == {"0", "9"}
SuffixChars == {"-", "+", "a", ".", "9"}
RawChars == {"1", "9", ".", "-", "+", "a"}

\* Three runs of digits joined by dots, followed by anything short: every
\* shape of the grammar (plain, prerelease, build, both) and its near misses.
ComposedVersions ==
    {ma \o <<".">> \o mi \o <<".">> \o pa \o suffix :
        ma \in NonEmptySeqsUpTo(InputDigits, MaxDigits),
        mi \in NonEmptySeqsUpTo(InputDigits, 1),
        pa \in NonEmptySeqsUpTo(InputDigits, MaxDigits),
        suffix \in SeqsUpTo(SuffixChars, MaxSuffixLen) \cup
                   {<<"-", "a", "+", "a">>, <<"-", "a", "-", "9", "+", "9", "-">>}}

BumpInputs == ComposedVersions \cup SeqsUpTo(RawChars, MaxRawLen)

BumpInit ==
    /\ SchemaIdle
    /\ MainIdle
    /\ bVersion \in BumpInputs
    /\ bType = "(none)"
    /\ bResult = NotCalled
    /\ bLegacy = NotCalled

\* bumpVersion(bVersion, type) is called
BumpVersion ==
    /\ bType = "(none)"
    /\ \E type \in VersionTypes :
        /\ bType' = type
        /\ bResult' = bumpVersion(bVersion, type)
        /\ bLegacy' = bumpVersionLegacy(bVersion, type)
    /\ UNCHANGED <<bVersion, schemaVars, mainVars>>

BumpNext == BumpVersion

SpecBump == BumpInit /\ [][BumpNext]_vars


(***************************************************************************)
(* SpecSchema: one configuration document is validated by both copies of   *)
(* the schema, and the JSON Schema document is produced.                   *)
(***************************************************************************)
SchemaNames == {Undefined_, Str(<<>>), Str(<<"ReleasePackage">>), Str(<<"MyConfig">>)}

SchemaInit ==
    /\ BumpIdle
    /\ MainIdle
    /\ sConfig \in ConfigInputs
    /\ sValidated = <<>>
    /\ sInternal = <<>>
    /\ sName \in SchemaNames
    /\ sDocument = <<>>
    /\ sDist = <<>>

\* validateReleasePackageConfig(sConfig)
ValidateReleasePackageConfig ==
    /\ sValidated = <<>>
    /\ sValidated' = <<validateReleasePackageConfig(sConfig)>>
    /\ UNCHANGED <<sConfig, sInternal, sName, sDocument, sDist, bumpVars, mainVars>>

\* ReleasePackageSchemaInternal.safeParse(sConfig)
SafeParseInternal ==
    /\ sInternal = <<>>
    /\ sInternal' = <<safeParse(ReleasePackageSchemaInternal, sConfig)>>
    /\ UNCHANGED <<sConfig, sValidated, sName, sDocument, sDist, bumpVars, mainVars>>

\* toJSONSchema(sName)
ToJSONSchema ==
    /\ sDocument = <<>>
    /\ sDocument' = <<toJSONSchema(sName)>>
    /\ UNCHANGED <<sConfig, sValidated, sInternal, sName, sDist, bumpVars, mainVars>>

\* bun run src/generate-schema.ts
GenerateSchema ==
    /\ sDist = <<>>
    /\ sDist' = <<finalSchema>>
    /\ UNCHANGED <<sConfig, sValidated, sInternal, sName, sDocument, bumpVars, mainVars>>

SchemaNext ==
    \/ ValidateReleasePackageConfig
    \/ SafeParseInternal
    \/ ToJSONSchema
    \/ GenerateSchema

SpecSchema == SchemaInit /\ [][SchemaNext]_vars

(***************************************************************************)
(* The semantic-version grammar MAJOR.MINOR.PATCH[-PRERELEASE][+BUILD],    *)
(* stated as the set of ways to cut a string into its components.          *)
(***************************************************************************)
AllDigits(s) == Len(s) >= 1 /\ \A i \in 1..Len(s) : s[i] \in Digits
Identifier(s) == Len(s) >= 1 /\ \A i \in 1..Len(s) : s[i] \in Digits \cup Letters \cup {"-"}

\* [-PRERELEASE][+BUILD]
MetadataTail(t) ==
    \E p \in 0..Len(t) :
        LET pre == SubSeq(t, 1, p)
            build == SubSeq(t, p + 1, Len(t))
        IN  /\ pre = <<>> \/ (pre[1] = "-" /\ Identifier(Tail(pre)))
            /\ build = <<>> \/ (build[1] = "+" /\ Identifier(Tail(build)))

\* <<i, j, k>>: the two dots of v and the index where the metadata starts
SemverCuts(v) ==
    {c \in (1..Len(v)) \X (1..Len(v)) \X (1..(Len(v) + 1)) :
        /\ c[1] < c[2] /\ c[2] < c[3]
        /\ v[c[1]] = "." /\ v[c[2]] = "."
        /\ AllDigits(SubSeq(v, 1, c[1] - 1))
        /\ AllDigits(SubSeq(v, c[1] + 1, c[2] - 1))
        /\ AllDigits(SubSeq(v, c[2] + 1, c[3] - 1))
        /\ MetadataTail(SubSeq(v, c[3], Len(v)))}

IsSemver(v) == SemverCuts(v) # {}

\* The number a run of digits denotes, read from the left.
RECURSIVE DecimalFrom(_, _, _)
DecimalFrom(s, i, acc) ==
    IF i > Len(s) THEN acc ELSE DecimalFrom(s, i + 1, acc * 10 + DigitValue(s[i]))
Decimal(s) == DecimalFrom(s, 1, 0)

\* A decimal numeral without leading zeros
Numeral(s) == AllDigits(s) /\ (Len(s) = 1 \/ s[1] # "0")

\* r is exactly the version M.m.p, with no prerelease or build metadata
IsPlainVersion(r, M, m, p) ==
    \E i, j \in 1..Len(r) :
        /\ i < j /\ r[i] = "." /\ r[j] = "."
        /\ Numeral(SubSeq(r, 1, i - 1)) /\ Decimal(SubSeq(r, 1, i - 1)) = M
        /\ Numeral(SubSeq(r, i + 1, j - 1)) /\ Decimal(SubSeq(r, i + 1, j - 1)) = m
        /\ Numeral(SubSeq(r, j + 1, Len(r))) /\ Decimal(SubSeq(r, j + 1, Len(r))) = p

\* r is the version v bumped by type
IsBumpOf(r, v, type) ==
    \A c \in SemverCuts(v) :
        LET M == Decimal(SubSeq(v, 1, c[1] - 1))
            m == Decimal(SubSeq(v, c[1] + 1, c[2] - 1))
            p == Decimal(SubSeq(v, c[2] + 1, c[3] - 1))
        IN  CASE type = "major" -> IsPlainVersion(r, M + 1, 0, 0)
              [] type = "minor" -> IsPlainVersion(r, M, m + 1, 0)
              [] type = "patch" -> IsPlainVersion(r, M, m, p + 1)
              [] OTHER -> FALSE

\* s occurs in msg as a run of consecutive tokens
Mentions(msg, s) ==
    \E i \in 1..(Len(msg) + 1) :
        i + Len(s) - 1 <= Len(msg) /\ SubSeq(msg, i, i + Len(s) - 1) = s

\* C2: for every version string of the semantic-version grammar and every
\* type patch, minor or major, bumpVersion returns the plain version
\* (MAJOR+1).0.0, MAJOR.(MINOR+1).0 or MAJOR.MINOR.(PATCH+1), without
\* prerelease or build metadata.
C2_BumpIncrements ==
    (bType \in VersionTypes /\ IsSemver(bVersion)) =>
        (~bResult.threw /\ IsBumpOf(bResult.value, bVersion, bType))

\* 0.0.9-a bumped by patch is 0.0.10: a carry, and the prerelease is gone
C2_Witness ==
    /\ bVersion = <<"0", ".", "0", ".", "9", "-", "a">>
    /\ bType = "patch"
    /\ bResult = Returns(<<"0", ".", "0", ".", "1", "0">>)

\* C3: for every string outside the semantic-version grammar and every
\* type, bumpVersion throws, and the message of the error contains the string.
C3_BumpRejects ==
    (bType \in VersionTypes /\ ~IsSemver(bVersion)) =>
        (bResult.threw /\ Mentions(bResult.value, bVersion))

\* 9.9.9.9 (the shape of 1.2.3.4) is rejected
C3_Witness ==
    /\ bVersion = <<"9", ".", "9", ".", "9", ".", "9">>
    /\ bType \in VersionTypes
    /\ bResult.threw
    /\ Mentions(bResult.value, bVersion)

(***************************************************************************)
(* The orchestrator's claims (specification Spec).                         *)
(***************************************************************************)
Ran(c) == \E i \in 1..Len(cmds) : cmds[i].cmd = c
RanAny(cs) == \E i \in 1..Len(cmds) : cmds[i].cmd \in cs
RanWith(c, arg) == \E i \in 1..Len(cmds) : cmds[i].cmd = c /\ cmds[i].arg = arg
Failed(c) == \E i \in 1..Len(cmds) : cmds[i].cmd = c /\ ~cmds[i].ok
Succeeded(c) == \E i \in 1..Len(cmds) : cmds[i].cmd = c /\ cmds[i].ok

Exited == exit # <<>>
\* The run ended at a cancelled or declined prompt
Cancelled ==
    /\ Exited
    /\ \/ versionType = Cancel
       \/ shouldRelease \in {Cancel, "false"}
       \/ releaseNotes.state = Cancel
\* The run printed the outro of a finished release
Completed == Exited /\ \E i \in 1..Len(output) : output[i] = "Successfully released"

\* The version field of a manifest file
VersionOf(file) == Get(file.doc, "version").v

\* package.json holds the new version, written by the run
ManifestOverwritten ==
    /\ writes >= 1
    /\ packageFile.kind = "json"
    /\ Get(packageFile.doc, "version") = Str(newVersion)

ReleaseCommands == {ReleaseItCmd, GitAddCmd, GitCommitCmd, GitTagCmd}
PublishSteps == {"npmView", "build", "publish"}

\* C1 as stated: no registry publish, git commit, git tag or release-it
\* command is invoked before package.json has been overwritten with the new
\* version.
C1_Original ==
    RanAny({NpmPublish, GitCommitCmd, GitTagCmd, ReleaseItCmd}) => ManifestOverwritten

\* C1, amended: release-it, git add, git commit and git tag are invoked only
\* after package.json has been overwritten with the new version; the registry
\* steps of ensureNpmPublished (npm view, build, npm publish) are taken only
\* while package.json has not been written.
C1_ReleaseAfterWrite ==
    /\ RanAny(ReleaseCommands) => ManifestOverwritten
    /\ pc \in PublishSteps => writes = 0

\* a run that published, wrote the manifest and then tagged
C1_Witness ==
    /\ Succeeded(NpmPublish)
    /\ ManifestOverwritten
    /\ Succeeded(GitTagCmd)

\* C4 as stated: a run cancelled at a prompt exits with 0, leaves
\* package.json as it was, invokes no commit or tag command and performs no
\* mutation at all.
C4_Original ==
    Cancelled =>
        /\ exit = <<0>>
        /\ packageFile = packageFileBefore
        /\ ~RanAny(ReleaseCommands)
        /\ ~RanAny({NpmPublish, BunBuild})

\* C4, amended: a run cancelled at the version-type, confirmation (also a
\* decline) or release-notes prompt exits with 0, leaves package.json
\* byte-identical, never writes it, and invokes no release-it, git add, git
\* commit or git tag command.  (The registry publish of the current version
\* may have run before the first prompt.)
C4_CancelLeavesManifest ==
    Cancelled =>
        /\ exit = <<0>>
        /\ packageFile = packageFileBefore
        /\ writes = 0
        /\ ~RanAny(ReleaseCommands)

\* a declined confirmation
C4_Witness ==
    /\ Cancelled
    /\ shouldRelease = "false"
    /\ exit = <<0>>
    /\ packageFile = packageFileBefore

\* .release-package.json holds platforms.npm.publish: false
ConfigDisablesPublish ==
    /\ configFile.kind = "json"
    /\ At(configFile.doc, <<"platforms", "npm", "publish">>) = Bool(FALSE)

\* C5 as stated: with platforms.npm.publish = false no registry command at
\* all is invoked during the run.
C5_Original ==
    ConfigDisablesPublish => ~RanAny({NpmPing, NpmView, BunBuild, NpmPublish})

\* C5, amended: with platforms.npm.publish = false the publish-check/publish
\* step is skipped: no existence query, build or publish command is invoked.
\* (The npm ping of the connectivity check runs all the same.)
C5_PublishSkipped ==
    ConfigDisablesPublish =>
        /\ ~RanAny({NpmView, BunBuild, NpmPublish})
        /\ pc \notin PublishSteps

\* a finished release with publishing disabled
C5_Witness ==
    /\ ConfigDisablesPublish
    /\ Completed
    /\ Ran(NpmPing)
    /\ ~RanAny({NpmView, BunBuild, NpmPublish})

\* What the manifest model accepts: a non-empty name, a version of the
\* semantic-version grammar, and string-to-string maps where present.
StringMap(x) == x.t = "object" /\ \A k \in DOMAIN x.v : x.v[k].t = "string"
ManifestValid(file) ==
    /\ file.kind = "json"
    /\ file.doc.t = "object"
    /\ Get(file.doc, "name").t = "string" /\ Len(Get(file.doc, "name").v) >= 1
    /\ Get(file.doc, "version").t = "string" /\ IsSemver(Get(file.doc, "version").v)
    /\ \A k \in {"scripts", "dependencies", "devDependencies"} :
          Get(file.doc, k).t = "undefined" \/ StringMap(Get(file.doc, k))
ConfigValid(file) ==
    file.kind = "json" /\ safeParse(ReleasePackageSchemaInternal, file.doc).success

ConnectivityFailed == Failed(NpmPing) \/ Failed(GitRevParse) \/ Failed(GitRemote)
PublishFailed == Failed(NpmPublish)
FallbackFailed == Failed(GitAddCmd) \/ Failed(GitCommitCmd) \/ Failed(GitTagCmd)

\* C6 as stated: a run that has ended has exit code 0 exactly when it
\* completed or was cancelled, and exit code 1 after a connectivity-check
\* failure, a manifest failure, a publish failure or a fallback failure.
C6_Original ==
    Exited =>
        /\ exit = <<0>> <=> (Completed \/ Cancelled)
        /\ (ConnectivityFailed \/ ~ManifestValid(packageFileBefore)
            \/ PublishFailed \/ FallbackFailed) => exit = <<1>>

\* C6, amended: a run that has ended has exit code 0 exactly when it
\* completed or was cancelled, and otherwise 1; it is 1 after a manifest
\* read or validation failure, a release-configuration read or validation
\* failure, a publish failure and a fallback add, commit or tag failure.  A
\* connectivity-check failure is not fatal and does not decide the exit code.
C6_ExitCodes ==
    Exited =>
        /\ exit \in {<<0>>, <<1>>}
        /\ exit = <<0>> <=> (Completed \/ Cancelled)
        /\ (~ManifestValid(packageFileBefore) \/ ~ConfigValid(configFile)
            \/ PublishFailed \/ FallbackFailed) => exit = <<1>>

\* a run aborted by a failed git tag
C6_Witness ==
    /\ Exited
    /\ Failed(GitTagCmd)
    /\ exit = <<1>>
    /\ ~Completed

\* C7: after a completed run that read version v and was answered type k,
\* package.json holds the version v bumped by k, release-it succeeded or the
\* fallback commit and tag were invoked with "chore: release <that version>"
\* and "v<that version>", and the exit code is 0.
C7_CompletedRelease ==
    Completed =>
        /\ packageFile.kind = "json"
        /\ Get(packageFile.doc, "version").t = "string"
        /\ IsBumpOf(VersionOf(packageFile), VersionOf(packageFileBefore), versionType)
        /\ \/ Succeeded(ReleaseItCmd)
           \/ /\ RanWith(GitCommitCmd, <<"chore: release ">> \o VersionOf(packageFile))
              /\ RanWith(GitTagCmd, <<"v">> \o VersionOf(packageFile))
        /\ exit = <<0>>

\* {name: x, version: 1.0.0}, minor, confirmed, no notes, by the fallback
C7_Witness ==
    /\ Completed
    /\ packageFileBefore = JsonFile(Obj([name |-> Str(<<"x">>), version |-> Str(V100)]))
    /\ versionType = "minor"
    /\ releaseNotes = Notes(<<>>, 0)
    /\ VersionOf(packageFile) = <<"1", ".", "1", ".", "0">>
    /\ RanWith(GitCommitCmd, <<"chore: release ", "1", ".", "1", ".", "0">>)
    /\ RanWith(GitTagCmd, <<"v", "1", ".", "1", ".", "0">>)
    /\ exit = <<0>>

\* C10: the document written back holds every field of the document read
\* from package.json, other than version, with the same value, and its
\* version is the new version.
C10_OnlyVersionChanges ==
    writes >= 1 =>
        /\ \A k \in DOMAIN packageFileBefore.doc.v \ {"version"} :
              Get(packageFile.doc, k) = packageFileBefore.doc.v[k]
        /\ Get(packageFile.doc, "version") = Str(newVersion)

(***************************************************************************)
(* The schema's claims (specification SpecSchema).                         *)
(***************************************************************************)
\* The keys each closed object declares
DeclaredKeys(path) ==
    CASE path = NpmPath -> {"publish", "registry", "access", "tag", "publishConfig"}
      [] path = GithubPath ->
           {"publish", "repository", "branch", "createRelease", "releaseName",
            "generateNotes", "assets", "draft", "prerelease"}
      [] path = <<"git">> ->
           {"commitMessage", "tagPrefix", "requireCleanWorkingDirectory",
            "requireUpToDate", "push", "pushTags"}

HasUndeclaredKey(config, path) ==
    HasObjectAt(config, path) /\ ~(DOMAIN At(config, path).v \subseteq DeclaredKeys(path))

\* Valid documents, with one unknown key added at an open object or none
OpenExtensions ==
    ValidBases \cup
    Edited(ValidBases, {Edit(path, "bogusField", Str(<<"x">>)) : path \in OpenConfigPaths})

\* C8: both copies of the schema reject a document with an undeclared key
\* inside platforms.npm, platforms.github or git, and accept a valid document
\* that carries $schema or an unknown key at the top level, in hooks, in
\* platforms or in publishConfig.
C8_ClosedAndOpen ==
    /\ sValidated # <<>> =>
          /\ (\E path \in ClosedConfigPaths : HasUndeclaredKey(sConfig, path))
                => sValidated[1].threw
          /\ sConfig \in OpenExtensions => ~sValidated[1].threw
    /\ sInternal # <<>> =>
          /\ (\E path \in ClosedConfigPaths : HasUndeclaredKey(sConfig, path))
                => ~sInternal[1].success
          /\ sConfig \in OpenExtensions => sInternal[1].success

\* platforms.npm.bogusField is rejected by both
C8_Witness ==
    /\ sConfig = WithKey(DefaultConfig, NpmPath, "bogusField", Str(<<"x">>))
    /\ sValidated # <<>> /\ sValidated[1].threw
    /\ sInternal # <<>> /\ ~sInternal[1].success

\* The objects of a JSON Schema document, by path, and the closed ones
RECURSIVE JsonObjects(_, _)
JsonObjects(node, path) ==
    (IF Get(node, "type") = Str(<<"object">>) THEN {path} ELSE {})
    \cup (IF Get(node, "properties").t = "object"
          THEN UNION {JsonObjects(node.v.properties.v[k], Append(path, k)) :
                         k \in DOMAIN node.v.properties.v}
          ELSE {})

JsonNodeAt(document, path) ==
    IF path = <<>> THEN document
    ELSE At(document, <<"properties", path[1]>> \o
                      (IF Len(path) >= 2 THEN <<"properties", path[2]>> ELSE <<>>) \o
                      (IF Len(path) >= 3 THEN <<"properties", path[3]>> ELSE <<>>))

JsonClosed(document) ==
    {path \in JsonObjects(document, <<>>) :
        Get(JsonNodeAt(document, path), "additionalProperties") = Bool(FALSE)}
\* additionalProperties does not occur in the object at all
JsonOmits(document, path) ==
    "additionalProperties" \notin DOMAIN JsonNodeAt(document, path).v

\* The strict objects of a zod schema, by path
RECURSIVE ZodStrict(_, _)
ZodStrict(schema, path) ==
    CASE schema.z \in {"optional", "default"} -> ZodStrict(schema.inner, path)
      [] schema.z = "object" ->
           (IF schema.strict THEN {path} ELSE {})
           \cup UNION {ZodStrict(schema.shape[k], Append(path, k)) : k \in DOMAIN schema.shape}
      [] OTHER -> {}

\* C9 as stated: additionalProperties: false is on npm and git and on no
\* other object, and the closed objects of the document are the strict
\* objects of ReleasePackageSchema.
C9_Original ==
    sDocument # <<>> =>
        /\ JsonClosed(sDocument[1]) = {NpmPath, <<"git">>}
        /\ JsonClosed(sDocument[1]) = ZodStrict(ReleasePackageSchema, <<>>)

\* C9, amended: additionalProperties: false is on the three closed objects
\* npm, github and git and is omitted on every other object (top level,
\* platforms, publishConfig, hooks), and the closed objects of the document
\* are the strict objects of ReleasePackageSchema.
C9_ClosedObjects ==
    sDocument # <<>> =>
        /\ JsonObjects(sDocument[1], <<>>) = ClosedConfigPaths \cup OpenConfigPaths
        /\ JsonClosed(sDocument[1]) = ClosedConfigPaths
        /\ \A path \in OpenConfigPaths : JsonOmits(sDocument[1], path)
        /\ JsonClosed(sDocument[1]) = ZodStrict(ReleasePackageSchema, <<>>)

\* the document was produced, and github is closed in it
C9_Witness ==
    /\ sDocument # <<>>
    /\ GithubPath \in JsonClosed(sDocument[1])
    /\ GithubPath \in ZodStrict(ReleasePackageSchema, <<>>)

(***************************************************************************)
(* The connectivity check, the publish step and the fallback.              *)
(***************************************************************************)
ConnectivitySteps == {"checkNpm", "checkGithub"}
ConnectivityCommands == {NpmPing, GitRevParse, GitRemote}
FallbackCommands == {GitAddCmd, GitCommitCmd, GitTagCmd}

\* How often a command was invoked, and where
Count(c) == Cardinality({i \in 1..Len(cmds) : cmds[i].cmd = c})
IndexOf(c) == CHOOSE i \in 1..Len(cmds) : cmds[i].cmd = c
\* The commands invoked after command c
After(c) == SubSeq(cmds, IndexOf(c) + 1, Len(cmds))
IsPrefix(s, t) == Len(s) <= Len(t) /\ \A i \in 1..Len(s) : s[i] = t[i]
NoPromptShown ==
    /\ versionType = NotAsked
    /\ shouldRelease = NotAsked
    /\ releaseNotes = NotesNotAsked

\* A step taken in the connectivity check does not end the run
ConnectivityStepGoesOn ==
    pc \in ConnectivitySteps =>
        (exit' = <<>> /\ pc' = (IF pc = "checkNpm" THEN "checkGithub" ELSE "readManifest"))

\* C11: the connectivity check is advisory: whatever the registry ping, the
\* repository-presence check and the remote listing return, a step of the
\* connectivity check never ends the run: it goes on to the next check and
\* then to reading the manifest.
C11_ConnectivityAdvisory ==
    [][ConnectivityStepGoesOn]_vars

\* Reading the manifest is reached with the ping and the repository check failed
C11_Witness ==
    /\ pc = "readManifest"
    /\ Failed(NpmPing)
    /\ Failed(GitRevParse)

\* The fallback as the code writes it: the three commands, with the new version
FallbackPlan ==
    <<[cmd |-> GitAddCmd, arg |-> <<>>],
      [cmd |-> GitCommitCmd, arg |-> <<"chore: release ">> \o newVersion],
      [cmd |-> GitTagCmd, arg |-> <<"v">> \o newVersion]>>
FallbackRun == [i \in 1..Len(After(ReleaseItCmd)) |->
                   [cmd |-> After(ReleaseItCmd)[i].cmd, arg |-> After(ReleaseItCmd)[i].arg]]

\* C12: the fallback runs if and only if release-it failed; it invokes git
\* add package.json, git commit "chore: release <new version>" and git tag
\* "v<new version>" in that order; a failure of one of them ends the run with
\* exit code 1 and the later ones are not invoked.
C12_FallbackOrder ==
    /\ RanAny(FallbackCommands) => Failed(ReleaseItCmd)
    /\ Succeeded(ReleaseItCmd) => After(ReleaseItCmd) = <<>>
    /\ Failed(ReleaseItCmd) =>
         /\ pc # "gitAdd" => After(ReleaseItCmd) # <<>>
         /\ IsPrefix(FallbackRun, FallbackPlan)
         /\ \A i \in 1..Len(After(ReleaseItCmd)) :
              ~After(ReleaseItCmd)[i].ok =>
                  /\ i = Len(After(ReleaseItCmd))
                  /\ exit = <<1>>
         /\ Exited /\ exit = <<0>> =>
              /\ Len(After(ReleaseItCmd)) = 3
              /\ \A i \in 1..3 : After(ReleaseItCmd)[i].ok
         /\ Exited /\ ~FallbackFailed => Len(After(ReleaseItCmd)) = 3

\* A run whose commit failed in the fallback: no tag, exit code 1
C12_Witness ==
    /\ Exited
    /\ Failed(ReleaseItCmd)
    /\ Succeeded(GitAddCmd)
    /\ Failed(GitCommitCmd)
    /\ ~Ran(GitTagCmd)

\* The release configuration was read and does not switch publishing off
PublishEnabled == releasePackage # Undefined_ /\ ~ConfigDisablesPublish

\* C13: with publishing not disabled, the existence query for
\* name@currentVersion is invoked; if it succeeds neither the build nor the
\* publish command is invoked; if it fails the build is invoked and then the
\* publish, whether the build succeeded or failed; a failed publish ends the
\* run with exit code 1 before any prompt is shown.
C13_EnsurePublished ==
    /\ PublishEnabled /\ pc # "npmView" =>
         RanWith(NpmView, Get(configFile.doc, "name").v \o <<"@">>
                             \o VersionOf(packageFileBefore))
    /\ Succeeded(NpmView) => ~Ran(BunBuild) /\ ~Ran(NpmPublish)
    /\ Failed(NpmView) /\ pc # "build" =>
         /\ Ran(BunBuild)
         /\ IndexOf(BunBuild) = IndexOf(NpmView) + 1
    /\ Ran(BunBuild) /\ pc # "publish" =>
         /\ Ran(NpmPublish)
         /\ IndexOf(NpmPublish) = IndexOf(BunBuild) + 1
    /\ Ran(BunBuild) => Failed(NpmView)
    /\ Ran(NpmPublish) => Ran(BunBuild)
    /\ Failed(NpmPublish) =>
         /\ exit = <<1>>
         /\ NoPromptShown
         /\ IndexOf(NpmPublish) = Len(cmds)

\* The build failed, the publish was invoked all the same and failed too
C13_Witness ==
    /\ PublishEnabled
    /\ Failed(NpmView)
    /\ Failed(BunBuild)
    /\ Failed(NpmPublish)
    /\ Exited

AllCommands ==
    ConnectivityCommands \cup {NpmView, BunBuild, NpmPublish, ReleaseItCmd}
        \cup FallbackCommands
\* The commands whose failure the code logs and passes over, and the
\* existence query, whose failure means "not published yet"
PassedOver == ConnectivityCommands \cup {NpmView, BunBuild}

\* C14: no command is invoked more than once in a run; a failed release-it
\* is followed by the git fallback, once; a failed publish, git add, git
\* commit or git tag is the last command of the run.
C14_NoRetries ==
    /\ \A i \in 1..Len(cmds) : cmds[i].cmd \in AllCommands
    /\ \A c \in AllCommands : Count(c) <= 1
    /\ \A i \in 1..Len(cmds) :
         ~cmds[i].ok /\ cmds[i].cmd \notin PassedOver =>
            IF cmds[i].cmd = ReleaseItCmd
            THEN \A j \in (i + 1)..Len(cmds) : cmds[j].cmd \in FallbackCommands
            ELSE i = Len(cmds) /\ Exited

\* A finished run in which release-it failed and the fallback took over
C14_Witness ==
    /\ Completed
    /\ Failed(ReleaseItCmd)
    /\ Count(ReleaseItCmd) = 1
    /\ Count(GitTagCmd) = 1

\* The manifest was read and accepted
ManifestRead == packageJson # Undefined_

\* C15: a manifest version that PackageJsonSchema accepted is one bumpVersion
\* accepts: it is in the version grammar, bumpVersion throws for none of
\* patch, minor, major, and a run in which the operator chose a type has its
\* new version and did not end in the error exit of ComputeNewVersion.
C15_BumpNeverThrows ==
    /\ ManifestRead =>
         /\ IsSemver(currentVersion)
         /\ \A type \in VersionTypes : ~bumpVersion(currentVersion, type).threw
    /\ versionType \in VersionTypes =>
         /\ newVersion = bumpVersion(currentVersion, versionType).value
         /\ ~(pc = "exited" /\ shouldRelease = NotAsked)

\* The operator chose a type for a manifest with pre-release and metadata
C15_Witness ==
    /\ versionType \in VersionTypes
    /\ currentVersion = V129beta
    /\ pc = "confirm"

\* C16: the manifest file is written at most once, and only after the type,
\* the confirmation and the notes were accepted; while it is unwritten the
\* file on disk is the one that was read; once written it holds the new
\* version to the end of the run, an abort in the fallback included.
C16_WrittenOnce ==
    /\ writes <= 1
    /\ writes = 0 => packageFile = packageFileBefore
    /\ writes = 1 =>
         /\ versionType \in VersionTypes
         /\ shouldRelease = "true"
         /\ releaseNotes.state = "text"
         /\ packageFile # packageFileBefore
         /\ packageFile.kind = "json"
         /\ VersionOf(packageFile) = newVersion
         /\ newVersion # VersionOf(packageFileBefore)
    /\ Exited /\ ~Ran(ReleaseItCmd) => writes = 0

\* A run that aborted in the fallback: the manifest holds the new version
C16_Witness ==
    /\ exit = <<1>>
    /\ FallbackFailed
    /\ writes = 1
    /\ VersionOf(packageFile) = newVersion

====
